---- MODULE Spec2Model ----
(***************************************************************************)
(* The job-application tracker: main.py (the ingestion workflow and the    *)
(* search fan-out), gmail_search.py (the classifier) and sheets_io.py (the *)
(* two sheets the workflow appends to).                                    *)
(*                                                                         *)
(* Text is kept as sequences of one-character strings, so that lower(),    *)
(* the substring test `k in text` and the newline join of subject and body *)
(* are computed on characters as the code computes them.                   *)
(***************************************************************************)
EXTENDS Bags, FiniteSets, Integers, Sequences, TLC

VARIABLES
    pc,               \* main(): where the run is ("idle": no run in progress)
    runs,             \* runs of main() started so far
    cfg_days,         \* config.json: GMAIL_QUERY_WINDOW_DAYS
    mailbox,          \* which sample mailbox the Gmail API serves
    app_sheet,        \* the applications sheet: its data rows, as a bag
    processed_sheet,  \* the processed-ids sheet: its data rows, as a bag
    processed_ids,    \* main(): processed_ids
    base_query,       \* search_confirmation_messages: base_query
    qi,               \* search_confirmation_messages: position in search_queries
    page_token,       \* search_confirmation_messages: page_token (0 is None)
    all_ids,          \* search_confirmation_messages: all_ids
    failed_q,         \* queries whose "Search query failed" warning was printed
    listed,           \* identifiers the list calls of this search returned, as a bag
    listed_by,        \* pairs <<k, id>>: a list call of the k-th query returned id
    ids,              \* main(): ids
    i,                \* main(): position in ids of the next candidate (from 1)
    new_rows,         \* main(): new_rows
    just_processed,   \* main(): just_processed
    gmail_log,        \* messages.get calls of this run and whether each returned
    run_faults,       \* a list or get call of this run has raised
    prev_run,         \* how the last run ended: "none" before any, "clean" (returned and
                      \* none of its list or get calls raised), "returned", or where it raised
    meta_failed,      \* identifiers whose latest metadata get raised
    last_negative,    \* identifiers whose latest classification by a run was negative
    cc_subject,       \* contains_confirmation: argument subject
    cc_body,          \* contains_confirmation: argument body_snippet
    cc_result,        \* contains_confirmation: its return value, once returned
    cc_pc             \* contains_confirmation: "call" before it runs, "returned" after

mainvars ==
    <<pc, runs, cfg_days, mailbox, app_sheet, processed_sheet, processed_ids, base_query, qi,
      page_token, all_ids, failed_q, listed, listed_by, ids, i, new_rows, just_processed, gmail_log,
      run_faults, prev_run, meta_failed, last_negative>>

clsvars ==
    <<cc_subject, cc_body, cc_result, cc_pc>>

vars ==
    <<mainvars, clsvars>>

----------------------------------------------------------------------------
(* Characters and strings *)

UpperToLower ==
    [c \in {"A","B","C","D","E","F","G","H","I","J","K","L","M",
            "N","O","P","Q","R","S","T","U","V","W","X","Y","Z"} |->
        CASE c = "A" -> "a" [] c = "B" -> "b" [] c = "C" -> "c" [] c = "D" -> "d"
          [] c = "E" -> "e" [] c = "F" -> "f" [] c = "G" -> "g" [] c = "H" -> "h"
          [] c = "I" -> "i" [] c = "J" -> "j" [] c = "K" -> "k" [] c = "L" -> "l"
          [] c = "M" -> "m" [] c = "N" -> "n" [] c = "O" -> "o" [] c = "P" -> "p"
          [] c = "Q" -> "q" [] c = "R" -> "r" [] c = "S" -> "s" [] c = "T" -> "t"
          [] c = "U" -> "u" [] c = "V" -> "v" [] c = "W" -> "w" [] c = "X" -> "x"
          [] c = "Y" -> "y" [] c = "Z" -> "z"]

(* str.lower(), character by character *)
lower(s) ==
    [p \in 1..Len(s) |-> IF s[p] \in DOMAIN UpperToLower THEN UpperToLower[s[p]] ELSE s[p]]

(* Python's `k in t` on strings: k occurs in t as a contiguous run *)
Contains(k, t) ==
    \E p \in 1..(Len(t) - Len(k) + 1) : SubSeq(t, p, p + Len(k) - 1) = k

(* any(k in t for k in terms) *)
AnyIn(terms, t) ==
    \E k \in terms : Contains(k, t)

----------------------------------------------------------------------------
(* gmail_search.py: the keyword lists *)

(* gmail_search.py: the inclusion list, each term as its characters *)
CONFIRMATION_KEYWORDS ==
    { <<"a","p","p","l","i","c","a","t","i","o","n"," ","r","e","c","e","i","v","e","d">>
    , <<"a","p","p","l","i","c","a","t","i","o","n"," ","s","u","b","m","i","t","t","e","d">>
    , <<"a","p","p","l","i","c","a","t","i","o","n"," ","c","o","n","f","i","r","m","a","t","i","o","n">>
    , <<"s","u","b","m","i","s","s","i","o","n"," ","r","e","c","e","i","v","e","d">>
    , <<"s","u","b","m","i","s","s","i","o","n"," ","c","o","n","f","i","r","m","e","d">>
    , <<"a","p","p","l","i","c","a","t","i","o","n"," ","a","c","k","n","o","w","l","e","d","g","m","e","n","t">>
    , <<"a","p","p","l","i","c","a","t","i","o","n"," ","a","c","k","n","o","w","l","e","d","g","e","m","e","n","t">>
    , <<"t","h","a","n","k","s"," ","f","o","r"," ","a","p","p","l","y","i","n","g">>
    , <<"t","h","a","n","k"," ","y","o","u"," ","f","o","r"," ","a","p","p","l","y","i","n","g">>
    , <<"t","h","a","n","k","s"," ","f","o","r"," ","y","o","u","r"," ","a","p","p","l","i","c","a","t","i","o","n">>
    , <<"t","h","a","n","k"," ","y","o","u"," ","f","o","r"," ","y","o","u","r"," ","a","p","p","l","i","c","a","t","i","o","n">>
    , <<"t","h","a","n","k","s"," ","f","o","r"," ","s","u","b","m","i","t","t","i","n","g">>
    , <<"t","h","a","n","k"," ","y","o","u"," ","f","o","r"," ","s","u","b","m","i","t","t","i","n","g">>
    , <<"t","h","a","n","k"," ","y","o","u"," ","f","o","r"," ","y","o","u","r"," ","i","n","t","e","r","e","s","t">>
    , <<"t","h","a","n","k","s"," ","f","o","r"," ","y","o","u","r"," ","i","n","t","e","r","e","s","t">>
    , <<"w","e"," ","r","e","c","e","i","v","e","d"," ","y","o","u","r"," ","a","p","p","l","i","c","a","t","i","o","n">>
    , <<"w","e","'","v","e"," ","r","e","c","e","i","v","e","d"," ","y","o","u","r"," ","a","p","p","l","i","c","a","t","i","o","n">>
    , <<"w","e"," ","h","a","v","e"," ","r","e","c","e","i","v","e","d"," ","y","o","u","r"," ","a","p","p","l","i","c","a","t","i","o","n">>
    , <<"y","o","u","r"," ","a","p","p","l","i","c","a","t","i","o","n"," ","w","a","s"," ","r","e","c","e","i","v","e","d">>
    , <<"r","e","c","e","i","v","e","d"," ","y","o","u","r"," ","a","p","p","l","i","c","a","t","i","o","n"," ","f","o","r">>
    , <<"y","o","u","r"," ","a","p","p","l","i","c","a","t","i","o","n"," ","h","a","s"," ","b","e","e","n"," ","r","e","c","e","i","v","e","d">>
    , <<"a","p","p","l","i","c","a","t","i","o","n"," ","s","u","c","c","e","s","s","f","u","l","l","y"," ","r","e","c","e","i","v","e","d">>
    , <<"y","o","u"," ","s","u","c","c","e","s","s","f","u","l","l","y"," ","a","p","p","l","i","e","d">>
    , <<"y","o","u","'","v","e"," ","s","u","c","c","e","s","s","f","u","l","l","y"," ","a","p","p","l","i","e","d">>
    , <<"s","u","c","c","e","s","s","f","u","l","l","y"," ","s","u","b","m","i","t","t","e","d">>
    , <<"a","p","p","l","i","c","a","t","i","o","n"," ","c","o","m","p","l","e","t","e">>
    , <<"s","u","b","m","i","s","s","i","o","n"," ","c","o","m","p","l","e","t","e">>
    , <<"a","p","p","l","i","c","a","t","i","o","n"," ","w","a","s"," ","s","u","c","c","e","s","s","f","u","l">>
    , <<"y","o","u","r"," ","a","p","p","l","i","c","a","t","i","o","n"," ","w","a","s"," ","s","e","n","t">>
    , <<"a","p","p","l","i","c","a","t","i","o","n"," ","w","a","s"," ","s","e","n","t">>
    , <<"y","o","u","r"," ","a","p","p","l","i","c","a","t","i","o","n"," ","h","a","s"," ","b","e","e","n"," ","s","e","n","t">>
    , <<"a","p","p","l","i","c","a","t","i","o","n"," ","s","e","n","t"," ","t","o">>
    , <<"f","o","r","w","a","r","d","e","d"," ","y","o","u","r"," ","a","p","p","l","i","c","a","t","i","o","n">>
    , <<"a","p","p","l","i","c","a","t","i","o","n"," ","f","o","r","w","a","r","d","e","d"," ","t","o">>
    , <<"w","e"," ","c","o","n","f","i","r","m"," ","y","o","u","r"," ","a","p","p","l","i","c","a","t","i","o","n">>
    , <<"t","h","i","s"," ","c","o","n","f","i","r","m","s"," ","y","o","u","r"," ","a","p","p","l","i","c","a","t","i","o","n">>
    , <<"c","o","n","f","i","r","m","i","n","g"," ","y","o","u","r"," ","a","p","p","l","i","c","a","t","i","o","n">>
    , <<"a","p","p","l","i","c","a","t","i","o","n"," ","o","n"," ","f","i","l","e">>
    , <<"y","o","u","r"," ","a","p","p","l","i","c","a","t","i","o","n"," ","t","o">>
    , <<"y","o","u","r"," ","a","p","p","l","i","c","a","t","i","o","n"," ","f","o","r"," ","t","h","e"," ","p","o","s","i","t","i","o","n">>
    , <<"y","o","u","r"," ","a","p","p","l","i","c","a","t","i","o","n"," ","f","o","r"," ","t","h","e"," ","r","o","l","e">>
    , <<"y","o","u","r"," ","p","r","o","f","i","l","e"," ","h","a","s"," ","b","e","e","n"," ","s","u","b","m","i","t","t","e","d">>
    , <<"p","r","o","f","i","l","e"," ","s","u","b","m","i","t","t","e","d"," ","s","u","c","c","e","s","s","f","u","l","l","y">>
    , <<"a","p","p","l","i","c","a","t","i","o","n"," ","i","n"," ","o","u","r"," ","s","y","s","t","e","m">>
    , <<"a","d","d","e","d"," ","t","o"," ","o","u","r"," ","c","a","n","d","i","d","a","t","e"," ","p","o","o","l">>
    , <<"c","a","n","d","i","d","a","t","e"," ","p","r","o","f","i","l","e"," ","r","e","c","e","i","v","e","d">>
    , <<"a","p","p","l","i","c","a","t","i","o","n"," ","i","s"," ","b","e","i","n","g"," ","r","e","v","i","e","w","e","d">>
    , <<"w","e","'","l","l"," ","r","e","v","i","e","w"," ","y","o","u","r"," ","a","p","p","l","i","c","a","t","i","o","n">>
    , <<"r","e","v","i","e","w","i","n","g"," ","y","o","u","r"," ","a","p","p","l","i","c","a","t","i","o","n">>
    , <<"y","o","u","r"," ","c","a","n","d","i","d","a","c","y">>
    , <<"t","h","a","n","k"," ","y","o","u"," ","f","o","r"," ","y","o","u","r"," ","c","a","n","d","i","d","a","c","y">>
    , <<"a","p","p","l","i","c","a","t","i","o","n"," ","h","a","s"," ","b","e","e","n"," ","s","u","b","m","i","t","t","e","d">>
    , <<"y","o","u","r"," ","p","r","o","f","i","l","e"," ","h","a","s"," ","b","e","e","n"," ","s","h","a","r","e","d">>
    , <<"p","r","o","f","i","l","e"," ","s","h","a","r","e","d"," ","w","i","t","h">>
    , <<"a","p","p","l","i","c","a","t","i","o","n"," ","d","e","l","i","v","e","r","e","d">>
    , <<"y","o","u","r"," ","i","n","t","e","r","e","s","t"," ","i","n">>
    , <<"y","o","u","r"," ","a","p","p","l","i","c","a","t","i","o","n"," ","w","a","s"," ","v","i","e","w","e","d">>
    , <<"a","p","p","l","i","c","a","t","i","o","n"," ","v","i","e","w","e","d"," ","b","y">>
    }

(* gmail_search.py: the module-level exclusion list (no function of the program reads it) *)
EXCLUSION_KEYWORDS ==
    { <<"r","e","g","r","e","t"," ","t","o"," ","i","n","f","o","r","m">>
    , <<"u","n","f","o","r","t","u","n","a","t","e","l","y">>
    , <<"n","o","t"," ","s","e","l","e","c","t","e","d">>
    , <<"n","o","t"," ","m","o","v","i","n","g"," ","f","o","r","w","a","r","d">>
    , <<"w","e"," ","a","r","e"," ","m","o","v","i","n","g"," ","f","o","r","w","a","r","d"," ","w","i","t","h"," ","o","t","h","e","r"," ","c","a","n","d","i","d","a","t","e","s">>
    , <<"d","e","c","i","d","e","d"," ","n","o","t"," ","t","o"," ","m","o","v","e"," ","f","o","r","w","a","r","d">>
    , <<"p","o","s","i","t","i","o","n"," ","h","a","s"," ","b","e","e","n"," ","f","i","l","l","e","d">>
    , <<"n","o"," ","l","o","n","g","e","r"," ","c","o","n","s","i","d","e","r","i","n","g">>
    , <<"w","i","l","l"," ","n","o","t"," ","b","e"," ","m","o","v","i","n","g"," ","f","o","r","w","a","r","d">>
    , <<"t","e","c","h","n","i","c","a","l"," ","a","s","s","e","s","s","m","e","n","t">>
    , <<"c","o","d","i","n","g"," ","c","h","a","l","l","e","n","g","e">>
    , <<"h","a","c","k","e","r","r","a","n","k">>
    , <<"c","o","d","i","l","i","t","y">>
    , <<"c","o","d","e","s","i","g","n","a","l">>
    , <<"p","h","o","n","e"," ","s","c","r","e","e","n"," ","s","c","h","e","d","u","l","e","d">>
    , <<"i","n","t","e","r","v","i","e","w"," ","s","c","h","e","d","u","l","e","d">>
    , <<"i","n","t","e","r","v","i","e","w"," ","i","n","v","i","t","a","t","i","o","n">>
    , <<"u","n","s","u","b","s","c","r","i","b","e">>
    , <<"n","e","w","s","l","e","t","t","e","r">>
    , <<"t","a","l","e","n","t"," ","c","o","m","m","u","n","i","t","y">>
    , <<"t","a","l","e","n","t"," ","n","e","t","w","o","r","k">>
    , <<"s","u","b","s","c","r","i","b","e"," ","t","o">>
    , <<"e","m","a","i","l"," ","p","r","e","f","e","r","e","n","c","e","s">>
    , <<"m","a","r","k","e","t","i","n","g">>
    , <<"b","a","c","k","g","r","o","u","n","d"," ","c","h","e","c","k">>
    , <<"o","f","f","e","r"," ","l","e","t","t","e","r">>
    , <<"e","m","p","l","o","y","m","e","n","t"," ","o","f","f","e","r">>
    , <<"s","a","l","a","r","y"," ","n","e","g","o","t","i","a","t","i","o","n">>
    , <<"s","t","a","r","t"," ","d","a","t","e">>
    , <<"s","u","r","v","e","y">>
    , <<"f","e","e","d","b","a","c","k"," ","r","e","q","u","e","s","t">>
    }

(* contains_confirmation: the local list strong_exclusions *)
strong_exclusions ==
    { <<"r","e","g","r","e","t"," ","t","o"," ","i","n","f","o","r","m">>
    , <<"u","n","f","o","r","t","u","n","a","t","e","l","y">>
    , <<"n","o","t"," ","s","e","l","e","c","t","e","d">>
    , <<"n","o","t"," ","m","o","v","i","n","g"," ","f","o","r","w","a","r","d">>
    , <<"p","o","s","i","t","i","o","n"," ","h","a","s"," ","b","e","e","n"," ","f","i","l","l","e","d">>
    , <<"n","o"," ","l","o","n","g","e","r"," ","c","o","n","s","i","d","e","r","i","n","g">>
    , <<"u","n","s","u","b","s","c","r","i","b","e">>
    , <<"n","e","w","s","l","e","t","t","e","r">>
    , <<"b","a","c","k","g","r","o","u","n","d"," ","c","h","e","c","k">>
    , <<"o","f","f","e","r"," ","l","e","t","t","e","r">>
    , <<"e","m","p","l","o","y","m","e","n","t"," ","o","f","f","e","r">>
    }

(* the subject list with a word that is no inclusion term *)
subject_conf_keywords_wide ==
    { <<"a","p","p","l","i","c","a","t","i","o","n"," ","r","e","c","e","i","v","e","d">>
    , <<"a","p","p","l","i","c","a","t","i","o","n"," ","s","u","b","m","i","t","t","e","d">>
    , <<"t","h","a","n","k","s"," ","f","o","r"," ","a","p","p","l","y","i","n","g">>
    , <<"t","h","a","n","k"," ","y","o","u"," ","f","o","r"," ","a","p","p","l","y","i","n","g">>
    , <<"a","p","p","l","i","c","a","t","i","o","n"," ","c","o","n","f","i","r","m","a","t","i","o","n">>
    , <<"s","u","b","m","i","s","s","i","o","n"," ","r","e","c","e","i","v","e","d">>
    , <<"a","p","p","l","i","c","a","t","i","o","n">>
    }

(* contains_confirmation: the literal list tested against subject_lower alone *)
subject_conf_keywords ==
    { <<"a","p","p","l","i","c","a","t","i","o","n"," ","r","e","c","e","i","v","e","d">>
    , <<"a","p","p","l","i","c","a","t","i","o","n"," ","s","u","b","m","i","t","t","e","d">>
    , <<"t","h","a","n","k","s"," ","f","o","r"," ","a","p","p","l","y","i","n","g">>
    , <<"t","h","a","n","k"," ","y","o","u"," ","f","o","r"," ","a","p","p","l","y","i","n","g">>
    , <<"a","p","p","l","i","c","a","t","i","o","n"," ","c","o","n","f","i","r","m","a","t","i","o","n">>
    , <<"s","u","b","m","i","s","s","i","o","n"," ","r","e","c","e","i","v","e","d">>
    }

(* main: the literal list behind promising_subject *)
promising_keywords ==
    { <<"a","p","p","l","i","c","a","t","i","o","n">>
    , <<"a","p","p","l","i","e","d">>
    , <<"s","u","b","m","i","s","s","i","o","n">>
    , <<"t","h","a","n","k">>
    , <<"r","e","c","e","i","v","e","d">>
    , <<"c","o","n","f","i","r","m","a","t","i","o","n">>
    }

----------------------------------------------------------------------------
(* gmail_search.py: contains_confirmation *)

(* the subject short-circuit returns before the exclusions are looked at *)
contains_confirmation_lenient(subject, body_snippet) ==
    LET subject_lower == lower(subject)
        body_lower == lower(body_snippet)
        text == subject_lower \o <<"\n">> \o body_lower
        has_conf == AnyIn(CONFIRMATION_KEYWORDS, text)
        has_strong_excl == AnyIn(strong_exclusions, text)
        subject_has_conf == AnyIn(subject_conf_keywords, subject_lower)
    IN  IF subject_has_conf
        THEN TRUE
        ELSE has_conf /\ ~has_strong_excl

contains_confirmation(subject, body_snippet) ==
    LET subject_lower == lower(subject)
        body_lower == lower(body_snippet)
        text == subject_lower \o <<"\n">> \o body_lower
        has_conf == AnyIn(CONFIRMATION_KEYWORDS, text)
        has_strong_excl == AnyIn(strong_exclusions, text)
        subject_has_conf == AnyIn(subject_conf_keywords, subject_lower)
    IN  IF subject_has_conf /\ ~has_strong_excl
        THEN TRUE
        ELSE has_conf /\ ~has_strong_excl

----------------------------------------------------------------------------
(* Bounds of the model *)

(* runs of main() in one behaviour *)
MaxRuns == 2

(* maxResults of messages.list, scaled so that a query's hits span pages *)
MaxResults == 2

(* queries of one search fan-out that may raise *)
MaxQueryFaults == 1

(* fragments joined into a subject, and into a body, for contains_confirmation *)
MaxSubjectFrags == 2

MaxBodyFrags == 2

----------------------------------------------------------------------------
(* Program constants *)

(* main.py: len(search_queries) *)
NumQueries == 10

(* main.py: full_body[:1000] *)
BodyPrefix == 1000

(* config.json: values of GMAIL_QUERY_WINDOW_DAYS *)
LookbackDays == {7, 30}

----------------------------------------------------------------------------
(* Sample texts *)

txtApplicationReceived ==
    <<"A","p","p","l","i","c","a","t","i","o","n"," ","R","e","c","e","i","v","e","d">>

txtYourCandidacy ==
    <<"y","o","u","r"," ","c","a","n","d","i","d","a","c","y">>

txtUnfortunately ==
    <<"U","n","f","o","r","t","u","n","a","t","e","l","y">>

txtSurvey ==
    <<"s","u","r","v","e","y">>

txtApplication ==
    <<"a","p","p","l","i","c","a","t","i","o","n">>

txtReceived ==
    <<" ","r","e","c","e","i","v","e","d">>

Frags ==
    {txtApplicationReceived, txtYourCandidacy, txtUnfortunately, txtSurvey,
     txtApplication, txtReceived}

RECURSIVE TextsUpTo(_)
TextsUpTo(n) ==
    IF n = 0 THEN {<<>>}
    ELSE LET shorter == TextsUpTo(n - 1)
         IN  shorter \cup {t \o f : t \in shorter, f \in Frags}

Subjects == TextsUpTo(MaxSubjectFrags)

Bodies == TextsUpTo(MaxBodyFrags)

----------------------------------------------------------------------------
(* The mailbox: what the Gmail API answers.  A message carries the fields  *)
(* main() reads; hits are the positions in search_queries of the queries   *)
(* whose listing returns the message.  payload is a single text/plain part *)
(* whose data decodes (valid) or makes urlsafe_b64decode raise.            *)

Ids == {"M1", "M2", "M3"}

MsgOrder == <<"M1", "M2", "M3">>

Message(subject, snippet, data, valid, internalDate, hits) ==
    [subject |-> subject, snippet |-> snippet,
     payload |-> [mimeType |-> "text/plain", data |-> data, valid |-> valid],
     internalDate |-> internalDate, hits |-> hits]

MailboxA ==
    [m \in Ids |->
        CASE m = "M1" -> Message(txtApplicationReceived, <<>>, <<>>, TRUE, TRUE, {1, 8})
          [] m = "M2" -> Message(txtApplication, txtSurvey, txtYourCandidacy, TRUE, TRUE, {8, 10})
          [] m = "M3" -> Message(txtApplicationReceived, txtUnfortunately, txtUnfortunately,
                                 TRUE, TRUE, {1, 8})]

MailboxB ==
    [m \in Ids |->
        CASE m = "M1" -> Message(txtApplicationReceived, <<>>, <<>>, TRUE, FALSE, {1})
          [] m = "M2" -> Message(txtApplicationReceived, txtUnfortunately, txtYourCandidacy,
                                 FALSE, TRUE, {1, 8})
          [] m = "M3" -> Message(txtSurvey, txtYourCandidacy, <<>>, TRUE, TRUE, {1, 5})]

BoxNames == {"A", "B"}

Box(name) ==
    IF name = "A" THEN MailboxA ELSE MailboxB

----------------------------------------------------------------------------
(* Helpers *)

Min(a, b) ==
    IF a <= b THEN a ELSE b

SeqToSet(s) ==
    {s[k] : k \in DOMAIN s}

SeqToBag(s) ==
    [x \in SeqToSet(s) |-> Cardinality({k \in DOMAIN s : s[k] = x})]

Count(bag, x) ==
    IF x \in DOMAIN bag THEN bag[x] ELSE 0

(* list(S) of a set: every order is possible *)
Orders(S) ==
    {s \in [1..Cardinality(S) -> S] : \A a, b \in 1..Cardinality(S) : a # b => s[a] # s[b]}

----------------------------------------------------------------------------
(* gmail_search.py: gmail_query_since; main.py: search_queries *)

gmail_query_since(days_back) ==
    "after:2025/01/01"

(* the k-th query is the base query followed by the k-th fixed group of terms *)
search_queries(base) ==
    [k \in 1..NumQueries |-> [since |-> base, terms |-> k]]

----------------------------------------------------------------------------
(* The Gmail API *)

(* messages.list(q, pageToken, maxResults): page_token 0 is None *)
ListPage(box, q, tok) ==
    LET matching == SelectSeq(MsgOrder, LAMBDA m : q.terms \in box[m].hits)
        start == IF tok = 0 THEN 1 ELSE tok
        end == Min(start + MaxResults - 1, Len(matching))
    IN  [messages |-> SubSeq(matching, start, end),
         nextPageToken |-> IF end < Len(matching) THEN end + 1 ELSE 0]

----------------------------------------------------------------------------
(* main.py: extract_body_content, on a single text/plain part *)

extract_body_content(message) ==
    LET payload == message.payload
    IN  IF payload.mimeType = "text/plain" /\ payload.data # <<>>
        THEN IF payload.valid THEN payload.data ELSE <<>>
        ELSE <<>>

Prefix(s, n) ==
    SubSeq(s, 1, Min(n, Len(s)))

(* main.py 195-212: what one message's texts decide, computed once per message *)
Verdicts ==
    [b \in BoxNames |-> [m \in Ids |->
        LET msg == Box(b)[m]
            snippet_conf == contains_confirmation(msg.subject, msg.snippet)
        IN  [snippet |-> snippet_conf,
             promising |-> ~snippet_conf /\ msg.subject # <<>>
                           /\ AnyIn(promising_keywords, lower(msg.subject)),
             full |-> contains_confirmation(msg.subject,
                          Prefix(extract_body_content(msg), BodyPrefix))]]]

----------------------------------------------------------------------------
(* sheets_io.py *)

(* get_processed_ids: the set of the sheet's data rows *)
get_processed_ids(sheet) ==
    BagToSet(sheet)

(* append_applications / append_processed_ids: values().append of whole     *)
(* rows.  No function of the program reads the order of a sheet's rows      *)
(* (get_processed_ids builds a set, the applications sheet is never read    *)
(* back), so a sheet is kept as the bag of its data rows.                   *)
AppendRows(sheet, rows) ==
    sheet (+) SeqToBag(rows)

(* main.py 226-235: the row; of its eight columns the model keeps Message ID *)
Row(mid) ==
    [mid |-> mid]

----------------------------------------------------------------------------
(* main.py: main() *)

Init ==
    /\ pc = "idle"
    /\ runs = 0
    /\ cfg_days \in LookbackDays
    /\ mailbox \in BoxNames
    /\ app_sheet = EmptyBag
    /\ processed_sheet = EmptyBag
    /\ processed_ids = {}
    /\ base_query = ""
    /\ qi = 0
    /\ page_token = 0
    /\ all_ids = {}
    /\ failed_q = {}
    /\ listed = EmptyBag
    /\ listed_by = {}
    /\ ids = <<>>
    /\ i = 0
    /\ new_rows = <<>>
    /\ just_processed = <<>>
    /\ gmail_log = <<>>
    /\ run_faults = FALSE
    /\ prev_run = "none"
    /\ meta_failed = {}
    /\ last_negative = {}
    /\ cc_subject = <<>>
    /\ cc_body = <<>>
    /\ cc_result = FALSE
    /\ cc_pc = "returned"

(* the run is over (returned or raised): main()'s locals are gone *)
EndRun(how) ==
    /\ pc' = "idle"
    /\ prev_run' = IF how = "returned" /\ ~run_faults THEN "clean" ELSE how
    /\ processed_ids' = {}
    /\ base_query' = ""
    /\ qi' = 0
    /\ page_token' = 0
    /\ all_ids' = {}
    /\ failed_q' = {}
    /\ listed' = EmptyBag
    /\ listed_by' = {}
    /\ ids' = <<>>
    /\ i' = 0
    /\ new_rows' = <<>>
    /\ just_processed' = <<>>
    /\ gmail_log' = <<>>
    /\ run_faults' = FALSE

(* main.py 154-170: config, headers, the Processed Set, the base query *)
StartRun ==
    /\ pc = "idle"
    /\ runs < MaxRuns
    /\ runs' = runs + 1
    /\ processed_ids' = get_processed_ids(processed_sheet)
    /\ base_query' = gmail_query_since(cfg_days)
    /\ pc' = "search"
    /\ qi' = 1
    /\ page_token' = 0
    /\ UNCHANGED <<cfg_days, mailbox, app_sheet, processed_sheet, all_ids, failed_q, listed, listed_by,
                   ids, i, new_rows, just_processed, gmail_log, run_faults, prev_run,
                   meta_failed, last_negative, clsvars>>

(* main.py 165-166: ensure_sheet_and_headers or get_processed_ids raises *)
StartRunRaises ==
    /\ pc = "idle"
    /\ runs < MaxRuns
    /\ runs' = runs + 1
    /\ EndRun("raised_start")
    /\ UNCHANGED <<cfg_days, mailbox, app_sheet, processed_sheet, meta_failed, last_negative, clsvars>>

(* assignment in place of update: earlier pages are lost *)
UpdateOverwrites(set, page) ==
    {page[k] : k \in DOMAIN page}

(* main.py 141: all_ids.update(...) *)
Update(set, page) ==
    set \cup SeqToSet(page)

(* main.py 143-145 *)
AdvancePage(res) ==
    IF res.nextPageToken = 0
    THEN qi' = qi + 1 /\ page_token' = 0
    ELSE qi' = qi /\ page_token' = res.nextPageToken

(* main.py 133-145: one page of the current query *)
ListOk ==
    /\ pc = "search"
    /\ qi <= NumQueries
    /\ LET res == ListPage(Box(mailbox), search_queries(base_query)[qi], page_token)
       IN  /\ all_ids' = Update(all_ids, res.messages)
           /\ listed' = listed (+) SeqToBag(res.messages)
           /\ listed_by' = listed_by \cup {<<qi, m>> : m \in SeqToSet(res.messages)}
           /\ AdvancePage(res)
    /\ UNCHANGED <<pc, runs, cfg_days, mailbox, app_sheet, processed_sheet, processed_ids,
                   base_query, failed_q, ids, i, new_rows, just_processed, gmail_log,
                   run_faults, prev_run, meta_failed, last_negative, clsvars>>

(* the try around the whole for loop: the first query that raises ends the search *)
ListRaisesEndsSearch ==
    /\ pc = "search"
    /\ qi <= NumQueries
    /\ Cardinality(failed_q) < MaxQueryFaults
    /\ failed_q' = failed_q \cup {qi}
    /\ qi' = NumQueries + 1
    /\ page_token' = 0
    /\ run_faults' = TRUE
    /\ UNCHANGED <<pc, runs, cfg_days, mailbox, app_sheet, processed_sheet, processed_ids,
                   base_query, all_ids, listed, listed_by, ids, i, new_rows, just_processed,
                   gmail_log, prev_run, meta_failed, last_negative, clsvars>>

(* main.py 146-149: the list call raises; the query is given up *)
ListRaises ==
    /\ pc = "search"
    /\ qi <= NumQueries
    /\ Cardinality(failed_q) < MaxQueryFaults
    /\ failed_q' = failed_q \cup {qi}
    /\ qi' = qi + 1
    /\ page_token' = 0
    /\ run_faults' = TRUE
    /\ UNCHANGED <<pc, runs, cfg_days, mailbox, app_sheet, processed_sheet, processed_ids,
                   base_query, all_ids, listed, listed_by, ids, i, new_rows, just_processed, gmail_log,
                   prev_run, meta_failed, last_negative, clsvars>>

(* main.py 151, 170-176: return list(all_ids); the loop's locals *)
SearchReturn ==
    /\ pc = "search"
    /\ qi > NumQueries
    /\ ids' \in Orders(all_ids)
    /\ pc' = "loop"
    /\ i' = 1
    /\ new_rows' = <<>>
    /\ just_processed' = <<>>
    /\ qi' = 0
    /\ all_ids' = {}
    /\ failed_q' = {}
    /\ listed' = EmptyBag
    /\ listed_by' = {}
    /\ UNCHANGED <<runs, cfg_days, mailbox, app_sheet, processed_sheet, processed_ids,
                   base_query, page_token, gmail_log, run_faults, prev_run, meta_failed, last_negative,
                   clsvars>>

(* the membership test lost: nothing is ever taken as processed *)
IsProcessedNever(mid, pids) ==
    FALSE

(* main.py 179 *)
IsProcessed(mid, pids) ==
    mid \in pids

Call(format, mid, ok) ==
    [format |-> format, id |-> mid, ok |-> ok]

(* main.py 179-180: continue *)
SkipProcessed ==
    /\ pc = "loop"
    /\ i <= Len(ids)
    /\ IsProcessed(ids[i], processed_ids)
    /\ i' = i + 1
    /\ UNCHANGED <<pc, runs, cfg_days, mailbox, app_sheet, processed_sheet, processed_ids,
                   base_query, qi, page_token, all_ids, failed_q, listed, listed_by, ids, new_rows,
                   just_processed, gmail_log, run_faults, prev_run, meta_failed, last_negative, clsvars>>

(* the handler marks the failed message processed *)
MetadataRaisesMarks ==
    /\ pc = "loop"
    /\ i <= Len(ids)
    /\ ~(ids[i] \in processed_ids)
    /\ gmail_log' = Append(gmail_log, [format |-> "metadata", id |-> ids[i], ok |-> FALSE])
    /\ meta_failed' = meta_failed \cup {ids[i]}
    /\ last_negative' = last_negative
    /\ run_faults' = TRUE
    /\ just_processed' = Append(just_processed, ids[i])
    /\ i' = i + 1
    /\ UNCHANGED <<pc, runs, cfg_days, mailbox, app_sheet, processed_sheet, processed_ids,
                   base_query, qi, page_token, all_ids, failed_q, listed, listed_by, ids, new_rows,
                   prev_run, clsvars>>

(* no handler: the error of one message ends the run *)
MetadataRaisesAborts ==
    /\ pc = "loop"
    /\ i <= Len(ids)
    /\ ~(ids[i] \in processed_ids)
    /\ meta_failed' = meta_failed \cup {ids[i]}
    /\ last_negative' = last_negative
    /\ EndRun("raised_loop")
    /\ UNCHANGED <<runs, cfg_days, mailbox, app_sheet, processed_sheet, clsvars>>

(* main.py 188, 242-247: the metadata get raises; warning, continue *)
MetadataRaises ==
    /\ pc = "loop"
    /\ i <= Len(ids)
    /\ ~IsProcessed(ids[i], processed_ids)
    /\ gmail_log' = Append(gmail_log, Call("metadata", ids[i], FALSE))
    /\ meta_failed' = meta_failed \cup {ids[i]}
    /\ last_negative' = last_negative
    /\ run_faults' = TRUE
    /\ i' = i + 1
    /\ UNCHANGED <<pc, runs, cfg_days, mailbox, app_sheet, processed_sheet, processed_ids,
                   base_query, qi, page_token, all_ids, failed_q, listed, listed_by, ids, new_rows,
                   just_processed, prev_run, clsvars>>

(* the row is staged but the identifier is not *)
StageForgetsId(mid) ==
    /\ new_rows' = Append(new_rows, Row(mid))
    /\ just_processed' = just_processed

(* the identifier goes to the front of its batch, the row to the end of its own *)
StagePrependsId(mid) ==
    /\ new_rows' = Append(new_rows, Row(mid))
    /\ just_processed' = <<mid>> \o just_processed

(* main.py 236-237 *)
Stage(mid) ==
    /\ new_rows' = Append(new_rows, Row(mid))
    /\ just_processed' = Append(just_processed, mid)

(* main.py 188-247: metadata fetched; classify, fall back to the full body, *)
(* derive the fields and stage the record                                  *)
ProcessMessage ==
    /\ pc = "loop"
    /\ i <= Len(ids)
    /\ ~IsProcessed(ids[i], processed_ids)
    /\ \E full_ok \in BOOLEAN :
         LET mid == ids[i]
             msg == Box(mailbox)[mid]
             v == Verdicts[mailbox][mid]
             is_confirmation == IF v.promising THEN full_ok /\ v.full ELSE v.snippet
         IN  /\ gmail_log' = gmail_log \o <<Call("metadata", mid, TRUE)>>
                               \o (IF v.promising THEN <<Call("full", mid, full_ok)>> ELSE <<>>)
             /\ run_faults' = (run_faults \/ (v.promising /\ ~full_ok))
             /\ meta_failed' = meta_failed \ {mid}
             /\ last_negative' = IF is_confirmation
                                 THEN last_negative \ {mid}
                                 ELSE last_negative \cup {mid}
             /\ IF is_confirmation /\ msg.internalDate
                THEN Stage(mid)
                ELSE UNCHANGED <<new_rows, just_processed>>
    /\ i' = i + 1
    /\ UNCHANGED <<pc, runs, cfg_days, mailbox, app_sheet, processed_sheet, processed_ids,
                   base_query, qi, page_token, all_ids, failed_q, listed, listed_by, ids, prev_run,
                   clsvars>>

(* main.py 249-251: the loop is over *)
LoopExit ==
    /\ pc = "loop"
    /\ i > Len(ids)
    /\ pc' = "commit_rows"
    /\ UNCHANGED <<runs, cfg_days, mailbox, app_sheet, processed_sheet, processed_ids,
                   base_query, qi, page_token, all_ids, failed_q, listed, listed_by, ids, i, new_rows,
                   just_processed, gmail_log, run_faults, prev_run, meta_failed, last_negative, clsvars>>

(* main.py 253-254 *)
CommitRows ==
    /\ pc = "commit_rows"
    /\ app_sheet' = IF new_rows # <<>> THEN AppendRows(app_sheet, new_rows) ELSE app_sheet
    /\ pc' = "commit_ids"
    /\ UNCHANGED <<runs, cfg_days, mailbox, processed_sheet, processed_ids, base_query, qi,
                   page_token, all_ids, failed_q, listed, listed_by, ids, i, new_rows, just_processed,
                   gmail_log, run_faults, prev_run, meta_failed, last_negative, clsvars>>

(* the failed append of the rows is swallowed and the run goes on *)
CommitRowsRaisesSwallowed ==
    /\ pc = "commit_rows"
    /\ new_rows # <<>>
    /\ pc' = "commit_ids"
    /\ UNCHANGED <<runs, cfg_days, mailbox, app_sheet, processed_sheet, processed_ids,
                   base_query, qi, page_token, all_ids, failed_q, listed, listed_by, ids, i, new_rows,
                   just_processed, gmail_log, run_faults, prev_run, meta_failed, last_negative, clsvars>>

(* main.py 254: append_applications raises and main() with it *)
CommitRowsRaises ==
    /\ pc = "commit_rows"
    /\ new_rows # <<>>
    /\ EndRun("raised_rows")
    /\ UNCHANGED <<runs, cfg_days, mailbox, app_sheet, processed_sheet, meta_failed, last_negative, clsvars>>

(* main.py 255-256 *)
CommitIds ==
    /\ pc = "commit_ids"
    /\ processed_sheet' = IF just_processed # <<>>
                          THEN AppendRows(processed_sheet, just_processed)
                          ELSE processed_sheet
    /\ pc' = "refresh"
    /\ UNCHANGED <<runs, cfg_days, mailbox, app_sheet, processed_ids, base_query, qi,
                   page_token, all_ids, failed_q, listed, listed_by, ids, i, new_rows, just_processed,
                   gmail_log, run_faults, prev_run, meta_failed, last_negative, clsvars>>

(* main.py 256: append_processed_ids raises and main() with it *)
CommitIdsRaises ==
    /\ pc = "commit_ids"
    /\ just_processed # <<>>
    /\ EndRun("raised_ids")
    /\ UNCHANGED <<runs, cfg_days, mailbox, app_sheet, processed_sheet, meta_failed, last_negative, clsvars>>

(* main.py 259: refresh_company_summary returns; main() returns *)
Refresh ==
    /\ pc = "refresh"
    /\ EndRun("returned")
    /\ UNCHANGED <<runs, cfg_days, mailbox, app_sheet, processed_sheet, meta_failed, last_negative, clsvars>>

(* main.py 259: refresh_company_summary raises *)
RefreshRaises ==
    /\ pc = "refresh"
    /\ EndRun("raised_refresh")
    /\ UNCHANGED <<runs, cfg_days, mailbox, app_sheet, processed_sheet, meta_failed, last_negative, clsvars>>

Next ==
    \/ StartRun
    \/ StartRunRaises
    \/ ListOk
    \/ ListRaises
    \/ SearchReturn
    \/ SkipProcessed
    \/ MetadataRaises
    \/ ProcessMessage
    \/ LoopExit
    \/ CommitRows
    \/ CommitRowsRaises
    \/ CommitIds
    \/ CommitIdsRaises
    \/ Refresh
    \/ RefreshRaises

Spec ==
    Init /\ [][Next]_vars

(* the steps of a run in progress: main() is one thread that keeps running, *)
(* and each call it makes returns or raises                                 *)
RunStep ==
    \/ ListOk
    \/ ListRaises
    \/ SearchReturn
    \/ SkipProcessed
    \/ MetadataRaises
    \/ ProcessMessage
    \/ LoopExit
    \/ CommitRows
    \/ CommitRowsRaises
    \/ CommitIds
    \/ CommitIdsRaises
    \/ Refresh
    \/ RefreshRaises

FairSpec ==
    Spec /\ WF_vars(RunStep)

----------------------------------------------------------------------------
(* contains_confirmation on its own: inputs drawn from the sample texts *)

InitClassifier ==
    /\ pc = "idle"
    /\ runs = 0
    /\ cfg_days = 7
    /\ mailbox = "A"
    /\ app_sheet = EmptyBag
    /\ processed_sheet = EmptyBag
    /\ processed_ids = {}
    /\ base_query = ""
    /\ qi = 0
    /\ page_token = 0
    /\ all_ids = {}
    /\ failed_q = {}
    /\ listed = EmptyBag
    /\ listed_by = {}
    /\ ids = <<>>
    /\ i = 0
    /\ new_rows = <<>>
    /\ just_processed = <<>>
    /\ gmail_log = <<>>
    /\ run_faults = FALSE
    /\ prev_run = "none"
    /\ meta_failed = {}
    /\ last_negative = {}
    /\ cc_subject \in Subjects
    /\ cc_body \in Bodies
    /\ cc_result = FALSE
    /\ cc_pc = "call"

Classify ==
    /\ cc_pc = "call"
    /\ cc_result' = contains_confirmation(cc_subject, cc_body)
    /\ cc_pc' = "returned"
    /\ UNCHANGED <<cc_subject, cc_body, mainvars>>

NextClassifier ==
    Classify

SpecClassifier ==
    InitClassifier /\ [][NextClassifier]_vars


----------------------------------------------------------------------------
(* Properties *)

RowCount(sheet, m) ==
    Count(sheet, Row(m))

(* the messages.get calls of this run for message m *)
GetCalls(m, format) ==
    {k \in DOMAIN gmail_log : gmail_log[k].id = m /\ gmail_log[k].format = format}

MetadataRaised(m) ==
    \E k \in GetCalls(m, "metadata") : ~gmail_log[k].ok

InRun ==
    pc \in {"loop", "commit_rows", "commit_ids", "refresh"}

(* C1: once an identifier is in the persisted Processed Set, no step of any *)
(* run appends an application row for it, and no step issues a metadata or *)
(* full get for it.                                                        *)
C1_ProcessedNeverRecordedNorFetched ==
    [][\A m \in get_processed_ids(processed_sheet) :
          /\ RowCount(app_sheet', m) = RowCount(app_sheet, m)
          /\ \A k \in DOMAIN gmail_log' :
                gmail_log'[k].id = m => k \in DOMAIN gmail_log /\ gmail_log[k] = gmail_log'[k]
      ]_vars

(* a later run has passed over a candidate that is in the persisted set *)
C1_Witness ==
    /\ pc = "loop"
    /\ runs >= 2
    /\ \E k \in 1..(i - 1) : ids[k] \in get_processed_ids(processed_sheet)

C3_AtMostOneRowPerMessage ==
    \A m \in Ids : RowCount(app_sheet, m) <= 1

(* C4: a message whose metadata get raised in this run is in neither batch  *)
(* and not in the persisted Processed Set; an identifier whose latest       *)
(* metadata get raised is not in the persisted set, and a run that has      *)
(* passed over it as a candidate has issued a metadata get for it.          *)
C4_MetadataFailureNotProcessedAndRetried ==
    \A m \in Ids :
        /\ MetadataRaised(m) =>
              /\ m \notin SeqToSet(just_processed)
              /\ Row(m) \notin SeqToSet(new_rows)
              /\ m \notin get_processed_ids(processed_sheet)
        /\ m \in meta_failed => m \notin get_processed_ids(processed_sheet)
        /\ (InRun /\ m \in meta_failed /\ \E k \in 1..(i - 1) : ids[k] = m)
              => GetCalls(m, "metadata") # {}

(* a second run ends its loop with a metadata failure and a staged record *)
C4_Witness ==
    /\ pc = "commit_rows"
    /\ runs >= 2
    /\ new_rows # <<>>
    /\ \E m \in Ids : MetadataRaised(m)

(* whether one of the terms occurs in the lower-cased subject or body *)
HasTerm(terms, subject, body) ==
    AnyIn(terms, lower(subject)) \/ AnyIn(terms, lower(body))

(* C5: when neither the lower-cased subject nor the lower-cased body holds *)
(* a term of CONFIRMATION_KEYWORDS, contains_confirmation returns false,   *)
(* whatever exclusion terms are present.                                   *)
C5_NoInclusionTermReturnsFalse ==
    (cc_pc = "returned" /\ ~HasTerm(CONFIRMATION_KEYWORDS, cc_subject, cc_body))
        => cc_result = FALSE

(* returned on a subject that looks promising to main() but holds no *)
(* inclusion term, with no exclusion term in the text                *)
C5_Witness ==
    /\ cc_pc = "returned"
    /\ cc_subject # <<>>
    /\ ~HasTerm(CONFIRMATION_KEYWORDS, cc_subject, cc_body)
    /\ AnyIn(promising_keywords, lower(cc_subject))
    /\ ~HasTerm(EXCLUSION_KEYWORDS, cc_subject, cc_body)

(* C6 as stated: with an inclusion term and a term of EXCLUSION_KEYWORDS in *)
(* the text, contains_confirmation returns false.                          *)
C6_ExclusionKeywordsOverrideInclusion ==
    (/\ cc_pc = "returned"
     /\ HasTerm(CONFIRMATION_KEYWORDS, cc_subject, cc_body)
     /\ HasTerm(EXCLUSION_KEYWORDS, cc_subject, cc_body))
        => cc_result = FALSE

(* C6 amended: with an inclusion term and a term of the list               *)
(* strong_exclusions in the text, contains_confirmation returns false.     *)
C6_StrongExclusionsOverrideInclusion ==
    (/\ cc_pc = "returned"
     /\ HasTerm(CONFIRMATION_KEYWORDS, cc_subject, cc_body)
     /\ HasTerm(strong_exclusions, cc_subject, cc_body))
        => cc_result = FALSE

(* returned on a subject that holds a phrase of the subject list, with a *)
(* strong exclusion in the body                                          *)
C6_Witness ==
    /\ cc_pc = "returned"
    /\ AnyIn(subject_conf_keywords, lower(cc_subject))
    /\ AnyIn(strong_exclusions, lower(cc_body))
    /\ ~AnyIn(strong_exclusions, lower(cc_subject))

NoDuplicates(s) ==
    \A a, b \in DOMAIN s : a # b => s[a] # s[b]

(* the messages of the mailbox that query k lists *)
Hits(k) ==
    {m \in Ids : k \in Box(mailbox)[m].hits}

(* C7: the list search_confirmation_messages returns holds no identifier   *)
(* twice, holds exactly the identifiers its list calls returned, and holds *)
(* every message of every query that did not raise (all its pages).        *)
C7_CandidatesDistinctAndComplete ==
    [][(pc = "search" /\ pc' = "loop")
          => /\ NoDuplicates(ids')
             /\ SeqToSet(ids') = BagToSet(listed)
             /\ \A k \in (1..NumQueries) \ failed_q : Hits(k) \subseteq SeqToSet(ids')
      ]_vars

(* the search is about to return; an identifier came back from more than *)
(* one list call, and some query needed a second page                    *)
C7_Witness ==
    /\ pc = "search"
    /\ qi > NumQueries
    /\ \E m \in Ids : Count(listed, m) >= 2
    /\ \E k \in (1..NumQueries) \ failed_q : Cardinality(Hits(k)) > MaxResults

(* a get for the message raised in this run *)
GetRaised(m) ==
    \E k \in DOMAIN gmail_log : gmail_log[k].id = m /\ ~gmail_log[k].ok

(* what the message's own texts decide when every get returns *)
FinalVerdict(m) ==
    LET v == Verdicts[mailbox][m]
    IN  IF v.promising THEN v.full ELSE v.snippet

(* the message's own processing raised: a get, or the field derivation *)
OwnFailure(m) ==
    GetRaised(m) \/ (FinalVerdict(m) /\ ~Box(mailbox)[m].internalDate)

(* the state the loop leaves behind *)
LoopOutcome ==
    \A m \in Ids :
        /\ (m \in SeqToSet(ids) /\ m \notin processed_ids)
              => Cardinality(GetCalls(m, "metadata")) = 1
        /\ (m \notin SeqToSet(ids) \/ m \in processed_ids)
              => GetCalls(m, "metadata") = {}
        /\ (m \in SeqToSet(ids) /\ m \notin processed_ids /\ ~OwnFailure(m))
              => (m \in SeqToSet(just_processed) <=> FinalVerdict(m))
        /\ OwnFailure(m) => m \notin SeqToSet(just_processed)

(* C8: no failure of one message ends the run: a step of the loop stays in *)
(* the loop or reaches the commit, the loop always reaches the commit, and *)
(* there each unprocessed candidate has been evaluated exactly once and a  *)
(* message that did not fail itself is recorded exactly when its own texts *)
(* say so, whatever happened to the others.                                *)
C8_MessageFailureNeverAbortsRun ==
    /\ [][pc = "loop" => /\ pc' \in {"loop", "commit_rows"}
                         /\ pc' = "commit_rows" => LoopOutcome']_vars
    /\ (pc = "loop") ~> (pc = "commit_rows")

(* at the commit, one message failed and another one is recorded *)
C8_Witness ==
    /\ pc = "commit_rows"
    /\ \E m \in Ids : OwnFailure(m) /\ m \in SeqToSet(ids) /\ m \notin processed_ids
    /\ just_processed # <<>>

(* C9: the date bound of every query issued is determined by the lookback *)
(* value: another lookback value gives another bound.                     *)
C9_DateBoundFollowsLookback ==
    (pc = "search" /\ qi \in 1..NumQueries)
        => \A d \in LookbackDays \ {cfg_days} :
              search_queries(gmail_query_since(d))[qi].since
                  # search_queries(base_query)[qi].since

(* C10: every identifier in the persisted Processed Set has a row in the *)
(* applications sheet.                                                   *)
C10_ProcessedIdsHaveRows ==
    \A m \in get_processed_ids(processed_sheet) : RowCount(app_sheet, m) >= 1

(* a run whose append of the processed identifiers raised, after an earlier *)
(* run had committed both its rows and its identifiers                      *)
C10_Witness ==
    /\ prev_run = "raised_ids"
    /\ processed_sheet # EmptyBag
    /\ \E m \in Ids : RowCount(app_sheet, m) >= 1 /\ m \notin get_processed_ids(processed_sheet)

(* the full-body fallback ran for the message in this run *)
FallbackAttempted(m) ==
    GetCalls(m, "full") # {}

(* the full get of the message raised *)
FullGetRaised(m) ==
    \E k \in GetCalls(m, "full") : ~gmail_log[k].ok

(* the part's data makes urlsafe_b64decode raise inside extract_body_content *)
DecodeFails(m) ==
    LET payload == Box(mailbox)[m].payload
    IN  payload.data # <<>> /\ ~payload.valid

(* C11: when the fallback to the full body was attempted and the full get *)
(* raised or the body did not decode, the message stays negative: no row  *)
(* and no identifier is staged for it.                                    *)
C11_FallbackFailureStaysNegative ==
    \A m \in Ids :
        (InRun /\ FallbackAttempted(m) /\ (FullGetRaised(m) \/ DecodeFails(m)))
            => /\ m \notin SeqToSet(just_processed)
               /\ Row(m) \notin SeqToSet(new_rows)

(* the identifiers the list calls of query k returned in this search *)
ReturnedBy(k) ==
    {m \in Ids : <<k, m>> \in listed_by}

(* every identifier any list call returned is in the list, and nothing else *)
MergedIsWhatWasReturned(result) ==
    /\ \A k \in 1..NumQueries : ReturnedBy(k) \subseteq SeqToSet(result)
    /\ \A m \in SeqToSet(result) : \E k \in 1..NumQueries : m \in ReturnedBy(k)

(* C12 as stated: the search returns although a query raised; a message of *)
(* the query that raised is in the returned list only if another query     *)
(* returned it, and what the other queries returned is in the list.        *)
C12_FailedQueryResultsAbsent ==
    /\ [][pc = "search" =>
             /\ pc' \in {"search", "loop"}
             /\ pc' = "loop" =>
                   /\ \A k \in failed_q : \A m \in Hits(k) \cap SeqToSet(ids') :
                         \E other \in (1..NumQueries) \ {k} : m \in ReturnedBy(other)
                   /\ \A k \in (1..NumQueries) \ failed_q : ReturnedBy(k) \subseteq SeqToSet(ids')
         ]_vars
    /\ (pc = "search") ~> (pc = "loop")

(* C12 amended: the search returns although a query raised; the query that *)
(* raised contributes the pages it returned before it raised and not all   *)
(* of its messages, every other query contributes all of its messages, and *)
(* the returned list holds exactly what the list calls returned.           *)
C12_FailedQueryKeepsEarlierPagesOnly ==
    /\ [][pc = "search" =>
             /\ pc' \in {"search", "loop"}
             /\ pc' = "loop" =>
                   /\ MergedIsWhatWasReturned(ids')
                   /\ \A k \in failed_q :
                         /\ ReturnedBy(k) \subseteq Hits(k)
                         /\ Hits(k) # {} => ReturnedBy(k) # Hits(k)
                   /\ \A k \in (1..NumQueries) \ failed_q : ReturnedBy(k) = Hits(k)
         ]_vars
    /\ (pc = "search") ~> (pc = "loop")

(* the search is about to return; a query raised on its second page and *)
(* another query returned something                                     *)
C12_Witness ==
    /\ pc = "search"
    /\ qi > NumQueries
    /\ \E k \in failed_q :
          /\ ReturnedBy(k) # {}
          /\ \E other \in (1..NumQueries) \ {k} : ReturnedBy(other) # {}

(* the metadata get of the message returned in this run *)
Evaluated(m) ==
    \E k \in GetCalls(m, "metadata") : gmail_log[k].ok

(* the final classification of the message in this run, read off the calls *)
(* the run made and the texts they returned                                *)
RunVerdict(m) ==
    LET v == Verdicts[mailbox][m]
    IN  IF v.promising
        THEN v.full /\ \E k \in GetCalls(m, "full") : gmail_log[k].ok
        ELSE v.snippet

(* the batches as the loop hands them to the commit *)
CommitBatches ==
    /\ Len(just_processed) = Len(new_rows)
    /\ \A k \in DOMAIN just_processed : new_rows[k].mid = just_processed[k]
    /\ NoDuplicates(just_processed)
    /\ SeqToSet(just_processed) \cap processed_ids = {}
    /\ SeqToSet(just_processed) =
          {m \in Ids : Evaluated(m) /\ RunVerdict(m) /\ Box(mailbox)[m].internalDate}

(* a run in progress has passed over the message as a candidate *)
PassedOver(m) ==
    InRun /\ \E k \in 1..(i - 1) : ids[k] = m

(* C13 as stated: at the commit the two batches match position by position, *)
(* hold distinct identifiers that were not in the loaded Processed Set, and  *)
(* are exactly the evaluated candidates classified positive without error;   *)
(* a candidate once classified negative is never marked processed afterwards *)
(* and every run that meets it fetches it.                                   *)
C13_BatchesMatchAndNegativesNeverProcessed ==
    /\ [](pc = "commit_rows" => CommitBatches)
    /\ [](\A m \in last_negative : PassedOver(m) => GetCalls(m, "metadata") # {})
    /\ [][\A m \in last_negative :
             /\ m \notin SeqToSet(just_processed')
             /\ m \notin get_processed_ids(processed_sheet')]_vars

(* C13 amended: at the commit the two batches match position by position,  *)
(* hold distinct identifiers that were not in the loaded Processed Set, and *)
(* are exactly the evaluated candidates classified positive without error;  *)
(* a candidate whose latest classification is negative is neither staged    *)
(* nor in the Processed Set, and a run that meets it fetches it.            *)
C13_BatchesMatchAndNegativesRetried ==
    /\ pc = "commit_rows" => CommitBatches
    /\ \A m \in last_negative :
          /\ m \notin SeqToSet(just_processed)
          /\ m \notin get_processed_ids(processed_sheet)
          /\ PassedOver(m) => GetCalls(m, "metadata") # {}

(* a second run is at its commit with two records staged and a candidate *)
(* it fetched and classified negative                                    *)
C13_Witness ==
    /\ pc = "commit_rows"
    /\ runs >= 2
    /\ Len(just_processed) >= 2
    /\ \E m \in last_negative : Evaluated(m)

====
